---------------------------- MODULE Spec2Model ----------------------------
(***************************************************************************)
(* robusta: the process-wide RateLimiter (utils/rate_limiter.py) called by *)
(* several threads, and RobustaJob.run_simple_job_spec                     *)
(* (integrations/kubernetes/custom_models.py).                             *)
(*                                                                         *)
(* A Python value that may be None is a sequence of length at most one:    *)
(* <<>> is None and <<v>> is the value v.                                  *)
(***************************************************************************)
EXTENDS Integers, Sequences, FiniteSets, TLC

\* ------------------------------------------------------------- bounds
NumThreads == 2   \* threads calling mark_and_test
MaxCalls == 2     \* mark_and_test calls started in one behaviour
MaxTime == 1      \* the largest clock reading
TimeBelow == 1    \* how far below the epoch a clock reading may lie
MaxPeriod == 1    \* the largest period_seconds
MaxPods == 2      \* the most pods listNamespacedPod returns for a job
MaxRuns == 2      \* run_simple_job_spec calls in one behaviour

Threads == 1..NumThreads
\* datetime.utcnow().timestamp(): the wall clock, which may be set back, and
\* which reads 0 or less while the clock is near the epoch east of UTC
Times == (0 - TimeBelow)..MaxTime
Periods == 0..MaxPeriod
\* operation names and ids: strings, two pairs of which concatenate alike
Operations == {"a", "ab"}
Ids == {"c", "bc"}
JobNames == {"job-a", "job-b"}

VARIABLES
    limiter_lock,     \* RateLimiter.limiter_lock: TRUE while held
    limiter_map,      \* RateLimiter.limiter_map: a dict, key -> timestamp
    pc,               \* where each thread is in mark_and_test
    operation,        \* the arguments of each thread's current or last call
    id,
    period_seconds,
    limiter_key,      \* the locals of each thread's call
    last_run,
    curr_seconds,     \* (kept after the return: the call's clock reading)
    result,           \* <<>> before the return statement, then <<its value>>
    started,          \* calls started so far
    permitted,        \* history: the calls that have returned True
    seq_map,          \* history: the map of the one-call-at-a-time execution
    seq_result,       \* history: that execution's return values
    all_pending,      \* history: every thread has had a call in progress at once
    job_pc,           \* where run_simple_job_spec is
    job,              \* its local variable job: <<>> or <<name>>
    pods,             \* the pods get_pods returned: <<>> or <<count>>
    pending,          \* the exception in flight: <<>> or <<its origin>>
    api_calls,        \* the Kubernetes API calls issued by the current run
    outcome,          \* how the last run ended: <<>>, <<"returned">> or <<"raised", e>>
    cluster_jobs,     \* the names of the jobs that exist on the API server
    runs              \* runs of run_simple_job_spec started so far

limiter_vars == <<limiter_lock, limiter_map, pc, operation, id, period_seconds,
                  limiter_key, last_run, curr_seconds, result, started,
                  permitted, seq_map, seq_result, all_pending>>
job_vars == <<job_pc, job, pods, pending, api_calls, outcome, cluster_jobs, runs>>
vars == <<limiter_vars, job_vars>>

\* ------------------------------------------------- rate_limiter.py
\* limiter_key = operation + id
LimiterKey(op, i) == op \o i

\* RateLimiter.limiter_map.get(key): None when the key is absent
Get(m, k) == IF k \in DOMAIN m THEN <<m[k]>> ELSE <<>>

\* an assignment that only overwrites an entry already there
PutIfPresent(m, k, v) == [x \in DOMAIN m |-> IF x = k THEN v ELSE m[x]]

\* RateLimiter.limiter_map[key] = v
Put(m, k, v) == [x \in (DOMAIN m) \cup {k} |-> IF x = k THEN v ELSE m[x]]

\* `if last_run:` None and 0.0 are both false
Truthy(v) == v # <<>> /\ v[1] # 0

\* the comparison off by one second
WindowPassedLate(curr, last, period) == curr - last > period + 1

\* curr_seconds - last_run > period_seconds
WindowPassed(curr, last, period) == curr - last > period

\* the value mark_and_test returns, lines 17-25
TestResult(last, curr, period) ==
    IF Truthy(last) THEN WindowPassed(curr, last[1], period) ELSE TRUE

\* the map mark_and_test leaves, lines 17-25
MarkedMap(m, k, last, curr, period) ==
    IF TestResult(last, curr, period) THEN Put(m, k, curr) ELSE m

InCall(t) == pc[t] \in {"lookup", "clock", "test", "release"}

\* a thread calls mark_and_test(op, i, p) and reaches the with statement
Call(t, op, i, p) ==
    /\ pc[t] = "idle"
    /\ started < MaxCalls
    /\ pc' = [pc EXCEPT ![t] = "acquire"]
    /\ operation' = [operation EXCEPT ![t] = op]
    /\ id' = [id EXCEPT ![t] = i]
    /\ period_seconds' = [period_seconds EXCEPT ![t] = p]
    /\ result' = [result EXCEPT ![t] = <<>>]
    /\ seq_result' = [seq_result EXCEPT ![t] = <<>>]
    /\ curr_seconds' = [curr_seconds EXCEPT ![t] = <<>>]
    /\ started' = started + 1
    /\ all_pending' = (all_pending \/ \A u \in Threads : u = t \/ pc[u] # "idle")
    /\ UNCHANGED <<limiter_lock, limiter_map, limiter_key, last_run,
                   permitted, seq_map, job_vars>>

\* entering the block without waiting for the lock
AcquireNoWait(t) ==
    /\ pc[t] = "acquire"
    /\ limiter_lock' = TRUE
    /\ pc' = [pc EXCEPT ![t] = "lookup"]
    /\ UNCHANGED <<limiter_map, operation, id, period_seconds, limiter_key,
                   last_run, curr_seconds, result, started, permitted,
                   seq_map, seq_result, all_pending, job_vars>>

\* with RateLimiter.limiter_lock: blocks until the lock is free, takes it
Acquire(t) ==
    /\ pc[t] = "acquire"
    /\ ~limiter_lock
    /\ limiter_lock' = TRUE
    /\ pc' = [pc EXCEPT ![t] = "lookup"]
    /\ UNCHANGED <<limiter_map, operation, id, period_seconds, limiter_key,
                   last_run, curr_seconds, result, started, permitted,
                   seq_map, seq_result, all_pending, job_vars>>

\* limiter_key = operation + id; last_run = limiter_map.get(limiter_key)
Lookup(t) ==
    /\ pc[t] = "lookup"
    /\ limiter_key' = [limiter_key EXCEPT ![t] = <<LimiterKey(operation[t], id[t])>>]
    /\ last_run' = [last_run EXCEPT ![t] = Get(limiter_map, LimiterKey(operation[t], id[t]))]
    /\ pc' = [pc EXCEPT ![t] = "clock"]
    /\ UNCHANGED <<limiter_lock, limiter_map, operation, id, period_seconds,
                   curr_seconds, result, started, permitted, seq_map,
                   seq_result, all_pending, job_vars>>

\* curr_seconds = datetime.utcnow().timestamp()
ReadClock(t, now) ==
    /\ pc[t] = "clock"
    /\ curr_seconds' = [curr_seconds EXCEPT ![t] = <<now>>]
    /\ pc' = [pc EXCEPT ![t] = "test"]
    /\ UNCHANGED <<limiter_lock, limiter_map, operation, id, period_seconds,
                   limiter_key, last_run, result, started, permitted, seq_map,
                   seq_result, all_pending, job_vars>>

\* the if statement: the comparison, the update and the return value.
\* The histories record the call as the one-call-at-a-time execution, which
\* reads its own map, would have done it.
TestAndMark(t) ==
    /\ pc[t] = "test"
    /\ LET k == limiter_key[t][1]
           now == curr_seconds[t][1]
           p == period_seconds[t]
           ret == TestResult(last_run[t], now, p)
       IN /\ limiter_map' = MarkedMap(limiter_map, k, last_run[t], now, p)
          /\ result' = [result EXCEPT ![t] = <<ret>>]
          /\ permitted' = IF ret
                          THEN permitted \cup {[key |-> k, period |-> p, now |-> now]}
                          ELSE permitted
          /\ seq_map' = MarkedMap(seq_map, k, Get(seq_map, k), now, p)
          /\ seq_result' = [seq_result EXCEPT
                               ![t] = <<TestResult(Get(seq_map, k), now, p)>>]
    /\ pc' = [pc EXCEPT ![t] = "release"]
    /\ UNCHANGED <<limiter_lock, operation, id, period_seconds, limiter_key,
                   last_run, curr_seconds, started, all_pending, job_vars>>

\* a release that the False return skips
ReleaseOnTrueOnly(t) ==
    /\ pc[t] = "release"
    /\ limiter_lock' = (result[t] # <<TRUE>>)
    /\ pc' = [pc EXCEPT ![t] = "idle"]
    /\ limiter_key' = [limiter_key EXCEPT ![t] = <<>>]
    /\ last_run' = [last_run EXCEPT ![t] = <<>>]
    /\ UNCHANGED <<limiter_map, operation, id, period_seconds, curr_seconds,
                   result, started, permitted, seq_map, seq_result, all_pending, job_vars>>

\* leaving the with block, on either return: the lock is released and the
\* call's locals are gone
Release(t) ==
    /\ pc[t] = "release"
    /\ limiter_lock' = FALSE
    /\ pc' = [pc EXCEPT ![t] = "idle"]
    /\ limiter_key' = [limiter_key EXCEPT ![t] = <<>>]
    /\ last_run' = [last_run EXCEPT ![t] = <<>>]
    /\ UNCHANGED <<limiter_map, operation, id, period_seconds, curr_seconds,
                   result, started, permitted, seq_map, seq_result, all_pending, job_vars>>

LimiterInit ==
    /\ limiter_lock = FALSE
    /\ limiter_map = <<>>
    /\ pc = [t \in Threads |-> "idle"]
    /\ operation = [t \in Threads |-> ""]
    /\ id = [t \in Threads |-> ""]
    /\ period_seconds = [t \in Threads |-> 0]
    /\ limiter_key = [t \in Threads |-> <<>>]
    /\ last_run = [t \in Threads |-> <<>>]
    /\ curr_seconds = [t \in Threads |-> <<>>]
    /\ result = [t \in Threads |-> <<>>]
    /\ started = 0
    /\ permitted = {}
    /\ seq_map = <<>>
    /\ seq_result = [t \in Threads |-> <<>>]
    /\ all_pending = FALSE

JobInit ==
    /\ job_pc = "idle"
    /\ job = <<>>
    /\ pods = <<>>
    /\ pending = <<>>
    /\ api_calls = <<>>
    /\ outcome = <<>>
    /\ cluster_jobs = {}
    /\ runs = 0

Init == LimiterInit /\ JobInit

ThreadStep(t) ==
    \/ Acquire(t)
    \/ Lookup(t)
    \/ \E now \in Times : ReadClock(t, now)
    \/ TestAndMark(t)
    \/ Release(t)

Next ==
    \/ \E t \in Threads, op \in Operations, i \in Ids, p \in Periods : Call(t, op, i, p)
    \/ \E t \in Threads : ThreadStep(t)

Spec == Init /\ [][Next]_vars

\* every thread inside mark_and_test keeps running (the scheduler starves none)
FairSpec == Spec /\ \A t \in Threads : WF_vars(ThreadStep(t))

\* ------------------------------------------------- custom_models.py
\* one Kubernetes API request as the run issued it
ApiCall(call, name, ok) == [call |-> call, name |-> name, ok |-> ok]

\* a statement of the try block raises: control goes to the finally clause
\* with the exception in flight
Raise(origin) ==
    /\ pending' = <<origin>>
    /\ job_pc' = "finally"

\* run_simple_job_spec(spec, name, timeout): the local job is built, with
\* name standing for to_kubernetes_name(name), and the try block is entered
RunSimpleJobSpec(name) ==
    /\ job_pc = "idle"
    /\ runs < MaxRuns
    /\ runs' = runs + 1
    /\ job' = <<name>>
    /\ pods' = <<>>
    /\ pending' = <<>>
    /\ api_calls' = <<>>
    /\ outcome' = <<>>
    /\ job_pc' = "create"
    /\ UNCHANGED <<cluster_jobs, limiter_vars>>

\* job = job.createNamespacedJob(job.metadata.namespace).obj, then from_dict:
\* job becomes the created object, which has the same name
CreateNamespacedJob(ok) ==
    /\ job_pc = "create"
    /\ api_calls' = Append(api_calls, ApiCall("createNamespacedJob", job[1], ok))
    /\ IF ok
       THEN /\ cluster_jobs' = cluster_jobs \cup {job[1]}
            /\ job_pc' = "wait"
            /\ UNCHANGED pending
       ELSE /\ Raise("createNamespacedJob")
            /\ UNCHANGED cluster_jobs
    /\ UNCHANGED <<job, pods, outcome, runs, limiter_vars>>

\* job = wait_until_job_complete(job, timeout), then from_dict: returns the
\* job or raises when the timeout passes first
WaitUntilJobComplete(ok) ==
    /\ job_pc = "wait"
    /\ IF ok
       THEN job_pc' = "get_single_pod" /\ UNCHANGED pending
       ELSE Raise("wait_until_job_complete")
    /\ UNCHANGED <<job, pods, api_calls, outcome, cluster_jobs, runs, limiter_vars>>

\* get_pods: PodList.listNamespacedPod raises
GetPodsRaises ==
    /\ job_pc = "get_single_pod"
    /\ api_calls' = Append(api_calls, ApiCall("listNamespacedPod", job[1], FALSE))
    /\ Raise("get_pods")
    /\ UNCHANGED <<job, pods, outcome, cluster_jobs, runs, limiter_vars>>

\* pod = job.get_single_pod(): raises unless get_pods returned one pod
GetSinglePod(n) ==
    /\ job_pc = "get_single_pod"
    /\ api_calls' = Append(api_calls, ApiCall("listNamespacedPod", job[1], TRUE))
    /\ pods' = <<n>>
    /\ IF n # 1
       THEN Raise("get_single_pod")
       ELSE job_pc' = "get_logs" /\ UNCHANGED pending
    /\ UNCHANGED <<job, outcome, cluster_jobs, runs, limiter_vars>>

\* return pod.get_logs(): the return value is kept while the finally clause runs
GetLogs(ok) ==
    /\ job_pc = "get_logs"
    /\ api_calls' = Append(api_calls, ApiCall("get_pod_logs", job[1], ok))
    /\ IF ok
       THEN job_pc' = "finally" /\ UNCHANGED pending
       ELSE Raise("get_logs")
    /\ UNCHANGED <<job, pods, outcome, cluster_jobs, runs, limiter_vars>>

\* a delete that runs only after the try block completed without raising
FinallyAfterSuccessOnly(ok) ==
    /\ job_pc = "finally"
    /\ IF pending = <<>>
       THEN /\ api_calls' = Append(api_calls, ApiCall("deleteNamespacedJob", job[1], ok))
            /\ cluster_jobs' = IF ok THEN cluster_jobs \ {job[1]} ELSE cluster_jobs
            /\ outcome' = IF ok THEN <<"returned">> ELSE <<"raised", "deleteNamespacedJob">>
       ELSE /\ outcome' = <<"raised", pending[1]>>
            /\ UNCHANGED <<api_calls, cluster_jobs>>
    /\ job_pc' = "idle"
    /\ UNCHANGED <<job, pods, pending, runs, limiter_vars>>

\* finally: job.deleteNamespacedJob(job.metadata.name, ...). When it returns,
\* the exception in flight is re-raised, or the value is returned; when it
\* raises, its exception is the one that leaves the method
Finally(ok) ==
    /\ job_pc = "finally"
    /\ api_calls' = Append(api_calls, ApiCall("deleteNamespacedJob", job[1], ok))
    /\ cluster_jobs' = IF ok THEN cluster_jobs \ {job[1]} ELSE cluster_jobs
    /\ outcome' = IF ~ok THEN <<"raised", "deleteNamespacedJob">>
                  ELSE IF pending # <<>> THEN <<"raised", pending[1]>>
                  ELSE <<"returned">>
    /\ job_pc' = "idle"
    /\ UNCHANGED <<job, pods, pending, runs, limiter_vars>>

JobNext ==
    \/ \E name \in JobNames : RunSimpleJobSpec(name)
    \/ \E ok \in BOOLEAN : CreateNamespacedJob(ok)
    \/ \E ok \in BOOLEAN : WaitUntilJobComplete(ok)
    \/ GetPodsRaises
    \/ \E n \in 0..MaxPods : GetSinglePod(n)
    \/ \E ok \in BOOLEAN : GetLogs(ok)
    \/ \E ok \in BOOLEAN : Finally(ok)

JobSpec == Init /\ [][JobNext]_vars

\* ------------------------------------------------- run_simple_job_spec's claim
\* the deleteNamespacedJob requests the current run has issued
Deletes == SelectSeq(api_calls, LAMBDA c : c.call = "deleteNamespacedJob")

\* C10: a run of run_simple_job_spec that has ended issued exactly one
\* deleteNamespacedJob, for its job and after every other request, whether the
\* try block returned the logs or createNamespacedJob, wait_until_job_complete,
\* get_single_pod or get_logs raised; and when a step raised and the delete
\* succeeded, the exception that leaves the method is that step's.
C10_DeleteOnEveryExit ==
    /\ Len(Deletes) <= 1
    /\ (job_pc = "idle" /\ runs > 0) =>
          /\ Len(Deletes) = 1
          /\ api_calls[Len(api_calls)] = Deletes[1]
          /\ Deletes[1].name = job[1]
          /\ (pending # <<>> /\ Deletes[1].ok) => outcome = <<"raised", pending[1]>>
          /\ (pending = <<>> /\ Deletes[1].ok) => outcome = <<"returned">>

\* C10's case: get_single_pod raised on a pod count other than one, the delete
\* was issued and succeeded, and get_single_pod's exception left the method
C10_Witness ==
    /\ job_pc = "idle"
    /\ pods # <<>> /\ pods[1] # 1
    /\ pending = <<"get_single_pod">>
    /\ Len(Deletes) = 1 /\ Deletes[1].ok
    /\ outcome = <<"raised", "get_single_pod">>

\* ------------------------------------------------- the rate limiter's claims
\* thread t executes the if statement of its call in this step
TestStep(t) == pc[t] = "test" /\ pc'[t] = "release"

\* the key of thread t's call
KeyOf(t) == LimiterKey(operation[t], id[t])

Abs(n) == IF n < 0 THEN 0 - n ELSE n

\* every thread has made exactly one call, all were in progress at once, all
\* with the same operation, id and period_seconds, and all have returned;
\* the map was empty before them, so the key had never been seen
RaceDone ==
    /\ started = NumThreads
    /\ all_pending
    /\ \A t \in Threads : pc[t] = "idle" /\ result[t] # <<>>
    /\ \A t, u \in Threads : /\ operation[t] = operation[u]
                             /\ id[t] = id[u]
                             /\ period_seconds[t] = period_seconds[u]

\* C1: N >= 2 threads call mark_and_test concurrently with the same operation,
\* id and period_seconds for a never-seen key: exactly one call returns True
\* and the others False. Stated at the claim's own case of simultaneous calls,
\* where every call reads the same clock value.
C1_ConcurrentFirstCallsOneTrue ==
    (RaceDone /\ \A t, u \in Threads : curr_seconds[t] = curr_seconds[u])
        => Cardinality({t \in Threads : result[t] = <<TRUE>>}) = 1

\* C2: a call for a key whose stored timestamp is T (any T, 0 included) with
\* now - T <= period_seconds returns False and leaves the key's timestamp T.
C2_WithinWindowSuppressed ==
    [][\A t \in Threads :
          (/\ TestStep(t)
           /\ KeyOf(t) \in DOMAIN limiter_map
           /\ curr_seconds[t][1] - limiter_map[KeyOf(t)] <= period_seconds[t])
          => /\ result'[t] = <<FALSE>>
             /\ Get(limiter_map', KeyOf(t)) = <<limiter_map[KeyOf(t)]>>]_vars

\* C3: a call for a key whose stored timestamp is T with now - T >
\* period_seconds returns True and stores now as the key's timestamp.
C3_AfterWindowPermitted ==
    [][\A t \in Threads :
          (/\ TestStep(t)
           /\ KeyOf(t) \in DOMAIN limiter_map
           /\ curr_seconds[t][1] - limiter_map[KeyOf(t)] > period_seconds[t])
          => /\ result'[t] = <<TRUE>>
             /\ Get(limiter_map', KeyOf(t)) = curr_seconds[t]]_vars

\* C3's case: a call found a non-zero timestamp more than a period old and
\* has returned True
C3_Witness ==
    \E t \in Threads :
        /\ pc[t] = "release"
        /\ Truthy(last_run[t])
        /\ curr_seconds[t][1] - last_run[t][1] > period_seconds[t]
        /\ result[t] = <<TRUE>>
        /\ Get(limiter_map, KeyOf(t)) = curr_seconds[t]

\* C4: the first call for a key with no entry in limiter_map returns True,
\* whatever period_seconds is, and the map then holds the call's clock reading.
C4_FirstCallPermitted ==
    [][\A t \in Threads :
          (TestStep(t) /\ KeyOf(t) \notin DOMAIN limiter_map)
          => /\ result'[t] = <<TRUE>>
             /\ Get(limiter_map', KeyOf(t)) = curr_seconds[t]]_vars

\* C4's case: a call that found no entry has returned True with the largest
\* period, and its reading is stored
C4_Witness ==
    \E t \in Threads :
        /\ pc[t] = "release"
        /\ last_run[t] = <<>>
        /\ period_seconds[t] = MaxPeriod
        /\ result[t] = <<TRUE>>
        /\ Get(limiter_map, KeyOf(t)) = curr_seconds[t]

\* C5: calls for the pair (operation, id) leave the stored timestamp of every
\* other pair as it was.
C5_DistinctPairsIndependent ==
    [][\A t \in Threads, op \in Operations, i \in Ids :
          (TestStep(t) /\ <<op, i>> # <<operation[t], id[t]>>)
          => Get(limiter_map', LimiterKey(op, i)) = Get(limiter_map, LimiterKey(op, i))]_vars

\* C6: two calls for one key with the same period that both return True have
\* clock readings more than the period apart.
C6_PermittedCallsSpaced ==
    [][\A t \in Threads :
          (TestStep(t) /\ result'[t] = <<TRUE>>)
          => \A c \in permitted :
                (c.key = KeyOf(t) /\ c.period = period_seconds[t])
                => Abs(curr_seconds[t][1] - c.now) > c.period]_vars

\* C7: limiter_map holds one timestamp per key, and no step lowers the stored
\* timestamp of a key, whichever way the clock moves.
C7_TimestampNeverDecreases ==
    [][\A k \in DOMAIN limiter_map :
          /\ k \in DOMAIN limiter_map'
          /\ limiter_map'[k] >= limiter_map[k]]_vars

\* C8: no step of one call falls between the lookup, clock read, comparison
\* and update of another, so calls complete in the order they took the lock,
\* and every return value and the map are those of running the calls one at
\* a time in that order.
C8_SerializedByLock ==
    /\ Cardinality({t \in Threads : InCall(t)}) <= 1
    /\ \A t \in Threads : result[t] = seq_result[t]
    /\ limiter_map = seq_map

\* C8's case: a call has run its critical section while another call for the
\* same key waits for the lock
C8_Witness ==
    \E t, u \in Threads :
        /\ t # u
        /\ pc[t] = "release"
        /\ pc[u] = "acquire"
        /\ KeyOf(t) = KeyOf(u)
        /\ result[t] = <<TRUE>>

\* C9: the lock is held exactly while a call is inside the with block, and
\* every call that has started returns.
C9_EveryCallReturns ==
    /\ [](limiter_lock <=> \E t \in Threads : InCall(t))
    /\ \A t \in Threads : (pc[t] # "idle") ~> (pc[t] = "idle")

\* C9's case: one call has returned True and another False, and the lock is
\* free again
C9_Witness ==
    \E t, u \in Threads :
        /\ pc[t] = "idle" /\ result[t] = <<TRUE>>
        /\ pc[u] = "idle" /\ result[u] = <<FALSE>>
        /\ ~limiter_lock

=============================================================================
